---- MODULE Spec2Model ----
(***************************************************************************)
(* A model of the ui3 reactive UI core (ui3-core/src/lib.rs) running on    *)
(* the change-tick store backend of ui3-bevy/src/lib.rs.                   *)
(*                                                                         *)
(* The state is the Application's mounted tree, the backend world (the     *)
(* store entities and the change tick), the execute_at_end list of         *)
(* Application::new / Application::update, and the heap cells shared       *)
(* between a mounted Effect node and the closures it enqueued.  Widget and *)
(* effect functions are application code: a small family of them stands    *)
(* in for it, whose root selects one of several descriptor trees          *)
(* by the value of its store, so that mutating that store and calling      *)
(* update diffs any of these trees against any other.                      *)
(***************************************************************************)
EXTENDS Integers, Sequences, FiniteSets, TLC

VARIABLES
    root,            \* Application::root, the mounted tree
    world,           \* B::RunCtx: [tick, stores]
    execute_at_end,  \* the deferred closures of the running new/update call
    cells,           \* heap of the Rc<Cell<..>> cleanup_fn cells, by effect instance
    edata,           \* heap of the Rc<RefCell<..>> init_data of effects, by instance
    next,            \* allocator of fresh identities (entities, boxes, Rcs)
    pc,              \* position inside Application::new / Application::update
    log,             \* what the running (or last) new/update call did, in order
    hist,            \* bookkeeping over the whole run (cleanups owed, faults)
    arg,             \* the root descriptor given to Application::new
    rendered,        \* what the render calls since the last new/update returned
    group,           \* a WidgetNodeGroup under construction by application code
    pushes           \* the push / push_named calls made on group, in order

vars == <<root, world, execute_at_end, cells, edata, next, pc, log, hist, arg, rendered,
          group, pushes>>

----------------------------------------------------------------------------
(* Bounds of the exploration. *)

\* no identity beyond this one is allocated
MaxAlloc == 20
\* the change tick does not pass this value
MaxTick == 10
\* the host renders at most this often between two updates
MaxRenders == 2
\* application code makes at most this many push / push_named calls on a group
MaxPushes == 4
\* the values the counter of a component or an effect takes
Vals == {0, 1, 2}

\* names of named group children, and the orders a HashMap may iterate them in
Names == {"a", "b"}
NameOrders == {<<"a", "b">>, <<"b", "a">>}

----------------------------------------------------------------------------
(* Descriptors: enum WidgetNode.                                           *)

WNone == [k |-> "None"]
WComponent(f, p) == [k |-> "Component", func |-> f, props |-> p]
WEffect(f, p) == [k |-> "Effect", func |-> f, props |-> p]
WUnit(u, c) == [k |-> "Unit", unit |-> u, children |-> c]
WGroup(ro, ord, named) == [k |-> "Group", render_order |-> ro, ordered |-> ord, named |-> named]

\* IntOrString
IosInt(i) == [int |-> TRUE, i |-> i, s |-> ""]
IosString(s) == [int |-> FALSE, i |-> 0, s |-> s]

\* the empty named map
NoNamed == [n \in {} |-> WNone]

\* WidgetNodeGroup::default, push and push_named; push_named panics on a
\* name that is present and the group is then never used
GroupDefault == [render_order |-> <<>>, ordered |-> <<>>, named |-> NoNamed, panicked |-> FALSE]

\* a variant of push that records the length after the push
PushOneBased(g, node) ==
    [g EXCEPT !.render_order = Append(@, IosInt(Len(g.ordered) + 1)),
              !.ordered = Append(@, node)]

Push(g, node) ==
    [g EXCEPT !.render_order = Append(@, IosInt(Len(g.ordered))),
              !.ordered = Append(@, node)]

\* a variant of push_named that accepts a name that is present
PushNamedSilent(g, node, name) ==
    [g EXCEPT !.named = [n \in DOMAIN g.named \cup {name} |->
                            IF n = name THEN node ELSE g.named[n]],
              !.render_order = Append(@, IosString(name))]

PushNamed(g, node, name) ==
    IF name \in DOMAIN g.named
    THEN [g EXCEPT !.named = [n \in DOMAIN g.named |-> IF n = name THEN node ELSE g.named[n]],
                   !.panicked = TRUE]
    ELSE [g EXCEPT !.named = [n \in DOMAIN g.named \cup {name} |->
                                 IF n = name THEN node ELSE g.named[n]],
                   !.render_order = Append(@, IosString(name))]

GroupNode(g) == WGroup(g.render_order, g.ordered, g.named)

----------------------------------------------------------------------------
(* The backend: impl UiBackend for BevyBackend.  A store is an entity with *)
(* one component; the entity carries the tick of its last change, a handle *)
(* (StoreInitData) the entity and the tick of its last marked read.        *)

\* the running context of one traversal or closure: InternalContext plus the
\* heaps the closures reach, the log, and the iteration order of HashMaps
Ctx(w, q, c, d, nx, l, h, o) ==
    [world |-> w, q |-> q, cells |-> c, edata |-> d, next |-> nx, log |-> l,
     hist |-> h, ord |-> o, panic |-> FALSE]

\* an entry of the log: what happened, to which instance, its number; a
\* "replaced" entry names the instances of the old and of the new subtree
Ev(e, i, n) == [e |-> e, i |-> i, n |-> n, olds |-> {}, news |-> {}]
Fault(ctx, what) == [ctx EXCEPT !.hist.faults = @ \cup {what}]
Panic(ctx, what) == [ctx EXCEPT !.panic = TRUE, !.hist.faults = @ \cup {what}]
Logged(ctx, e, i, n) == [ctx EXCEPT !.log = Append(@, Ev(e, i, n))]

Without(f, ks) == [x \in DOMAIN f \ ks |-> f[x]]

\* let v be the value of an expression in what follows: the value is bound
\* once and used by the continuation Then
With(v, Then(_)) == Then(v)

\* a variant of is_changed that misses a change made right after the last read
IsChangedLate(changed, last, tick) == (tick - changed) + 1 < (tick - last)

\* ComponentTicks::is_changed(last_change_tick, change_tick) as called at line 81
IsChanged(changed, last, tick) == (tick - changed) < (tick - last)

\* B::mark_update
MarkUpdate(w) == [w EXCEPT !.tick = @ + 1]

\* B::init_store: spawn an entity holding the value; the handle starts at tick 0
InitStore(ctx, val) ==
    [data |-> [id |-> ctx.next, tick |-> 0],
     ctx |-> [ctx EXCEPT !.next = @ + 1,
                         !.world.stores = @ @@ (ctx.next :> [val |-> val, changed |-> ctx.world.tick])]]

\* B::deinit_store: despawn (of a missing entity: no effect)
DeinitStore(data, ctx) ==
    [ctx EXCEPT !.world.stores = Without(@, {data.id}), !.hist.dirty = @ \ {data.id}]

\* B::access_store_mut followed by a write through the Mut: the component's
\* changed tick becomes the current tick
AccessStoreMut(w, id, val) ==
    [w EXCEPT !.stores[id] = [val |-> val, changed |-> w.tick]]

\* a variant of the marked read that does not record the tick
ReadStoreUnmarked(ctx, data) == data

\* B::read_store_marked: record the tick in the handle (the read itself is
\* ReadStore; a missing entity panics there)
ReadStoreMarked(ctx, data) == [data EXCEPT !.tick = ctx.world.tick]

StoreExists(ctx, id) == id \in DOMAIN ctx.world.stores

\* B::check_store_needs_recalc (a missing entity panics; reported by the caller)
CheckStoreNeedsRecalc(ctx, data) ==
    /\ StoreExists(ctx, data.id)
    /\ IsChanged(ctx.world.stores[data.id].changed, data.tick, ctx.world.tick)

----------------------------------------------------------------------------
(* The hook parameter protocol for a tuple of Store parameters:            *)
(* impl WidgetParam for Store and the tuple code of impl_functions.        *)

RECURSIVE ParamsInit(_, _, _)
\* init of n Store<i32> parameters, left to right
ParamsInit(n, acc, ctx) ==
    IF n = 0 THEN [params |-> acc, ctx |-> ctx]
    ELSE With(InitStore(ctx, 0), LAMBDA s :
            ParamsInit(n - 1, Append(acc, s.data), s.ctx))

\* get_item of every parameter: the handles after the marked read
ParamsGet(ctx, params) == [i \in DOMAIN params |-> ReadStoreMarked(ctx, params[i])]

\* the bookkeeping of the stores written since their handle's last marked
\* read: a write puts the store in, the marked read of its handle takes it out
Written(ctx, id) == [ctx EXCEPT !.hist.dirty = @ \cup {id}]
Observed(ctx, params) == [ctx EXCEPT !.hist.dirty = @ \ {params[i].id : i \in DOMAIN params}]

\* the items handed to the function: Store { val, id }
ParamsItems(ctx, params) ==
    [i \in DOMAIN params |->
        [val |-> IF StoreExists(ctx, params[i].id) THEN ctx.world.stores[params[i].id].val ELSE 0,
         id |-> params[i].id]]

ParamsMissing(ctx, params) == \E i \in DOMAIN params : ~StoreExists(ctx, params[i].id)

\* false || needs_recalc(p1) || ...
ParamsNeedsRecalc(ctx, params) == \E i \in DOMAIN params : CheckStoreNeedsRecalc(ctx, params[i])

RECURSIVE ParamsDeinit(_, _)
\* deinit of every parameter, left to right
ParamsDeinit(ctx, params) ==
    IF params = <<>> THEN ctx
    ELSE ParamsDeinit(DeinitStore(Head(params), ctx), Tail(params))

----------------------------------------------------------------------------
(* The application code: widget functions and effect functions.  The       *)
(* identity of a function (fn_type_id) is its name.                        *)

\* the number of Store parameters of a widget function
FuncParams(f) == CASE f = "textw" -> 0 [] OTHER -> 1

\* the number of Store parameters of an effect function
EffectParams(f) == CASE f \in {"effZ", "effW", "effA"} -> 0 [] OTHER -> 1

\* fw: a unit showing its property and its counter, above an effect on the counter
FwBody(p, items) == WUnit(<<p, items[1].val>>, WEffect("effS", items[1].val))

\* textw: a text unit (ui3-web-backend textw)
TextwBody(p) == WUnit(<<p>>, WNone)

\* gw: a nested component while its counter is 0, nothing otherwise
GwBody(p, items) == IF items[1].val = 0 THEN WComponent("textw", p) ELSE WNone

\* hw: an effect that is handed the id of the component's counter
HwBody(p, items) == WEffect("effW", items[1].id)

\* the trees rootw chooses from
Pages == 0 .. 12

\* two positional children and one named child
PageGroup ==
    GroupNode(PushNamed(Push(Push(GroupDefault, WComponent("fw", 0)), WEffect("effZ", 0)),
                        WComponent("gw", 1), "a"))

\* the same named child, one positional child less
PageShort ==
    GroupNode(PushNamed(Push(GroupDefault, WComponent("fw", 1)), WComponent("gw", 1), "a"))

\* the children of PageGroup, the named one pushed first
PageTurned ==
    GroupNode(Push(Push(PushNamed(GroupDefault, WComponent("gw", 1), "a"),
                        WComponent("fw", 0)), WEffect("effZ", 0)))

\* one named child under another name
PageNamed == GroupNode(PushNamed(GroupDefault, WComponent("hw", 0), "b"))

\* a unit above a component, and another unit above the same component
PageLeaf == WUnit(<<11>>, WComponent("gw", 0))
PageLeafOther == WUnit(<<12>>, WComponent("gw", 1))

Page(v) ==
    CASE v = 0 -> WComponent("fw", 0)
      [] v = 1 -> WComponent("fw", 1)
      [] v = 2 -> WComponent("gw", 0)
      [] v = 3 -> WEffect("effS", 0)
      [] v = 4 -> WEffect("effZ", 0)
      [] v = 5 -> PageGroup
      [] v = 6 -> PageShort
      [] v = 7 -> PageTurned
      [] v = 8 -> PageNamed
      [] v = 9 -> WUnit(<<9>>, WNone)
      [] v = 11 -> PageLeaf
      [] v = 12 -> PageLeafOther
      [] OTHER -> WNone

\* rootw: the tree selected by its store
RootwBody(items) == Page(items[1].val)

\* the trees rootl chooses from: a component, an effect whose needs_recalc
\* always answers true, an effect that writes its own store, nothing
LoopPages == 0 .. 3

LoopPage(v) ==
    CASE v = 0 -> WComponent("fw", 0)
      [] v = 1 -> WEffect("effA", 0)
      [] v = 2 -> WEffect("effO", 0)
      [] OTHER -> WNone

\* rootl: the tree selected by its store
RootlBody(items) == LoopPage(items[1].val)

\* the call of the function itself: (self)(props.., items..)
Body(f, p, items) ==
    CASE f = "rootw" -> RootwBody(items)
      [] f = "rootl" -> RootlBody(items)
      [] f = "fw" -> FwBody(p, items)
      [] f = "gw" -> GwBody(p, items)
      [] f = "hw" -> HwBody(p, items)
      [] f = "textw" -> TextwBody(p)

----------------------------------------------------------------------------
(* WidgetFunc for Fn(&props.., params..): impl_functions @finalize.        *)

\* init: a box of the parameters' init data.  The box is told apart by inst.
WidgetFuncInit(f, ctx) ==
    With(ParamsInit(FuncParams(f), <<>>, [ctx EXCEPT !.next = @ + 1]), LAMBDA r :
        [data |-> [inst |-> ctx.next, fn |-> f, params |-> r.params],
         ctx |-> Logged([r.ctx EXCEPT !.hist.live = @ \cup {ctx.next}], "init", ctx.next, 0)])

\* the bookkeeping of the type of the properties held for a hook state: the
\* properties of a descriptor of f have the type f takes
Adopted(ctx, inst, f) ==
    [ctx EXCEPT !.hist.ptype = [x \in DOMAIN @ \cup {inst} |-> IF x = inst THEN f ELSE @[x]]]

\* props.downcast_ref().unwrap() of DynWidgetFunc::call (line 149) fails
PropsDowncastFails(f, ctx, data) ==
    data.inst \notin DOMAIN ctx.hist.ptype \/ ctx.hist.ptype[data.inst] # f

\* call: downcast the properties and the state, get_item of every parameter,
\* call the function
WidgetFuncCall(f, ctx, p, data) ==
    IF data.fn # f \/ PropsDowncastFails(f, ctx, data)
    THEN [node |-> WNone, data |-> data, ctx |-> Panic(ctx, "downcast")]
    ELSE IF ParamsMissing(ctx, data.params)
    THEN [node |-> WNone, data |-> data, ctx |-> Panic(ctx, "no_entity")]
    ELSE [node |-> Body(f, p, ParamsItems(ctx, data.params)),
          data |-> [data EXCEPT !.params = ParamsGet(ctx, data.params)],
          ctx |-> Logged(Observed(IF data.inst \in ctx.hist.live THEN ctx
                                  ELSE Fault(ctx, "use_after_deinit"), data.params),
                         "call", data.inst, 0)]

\* needs_recalc: the disjunction over the parameters
WidgetFuncNeedsRecalc(f, ctx, data) == ParamsNeedsRecalc(ctx, data.params)

\* what needs_recalc aborts on: a bad downcast or a despawned entity
WidgetFuncNeedsRecalcPanics(f, ctx, data) == data.fn # f \/ ParamsMissing(ctx, data.params)

\* the bookkeeping of a needs_recalc on a hook state that was deinit'ed
Checked(ctx, data) ==
    IF data.inst \in ctx.hist.live THEN ctx ELSE Fault(ctx, "use_after_deinit")

\* deinit: downcast the box and deinit every parameter
WidgetFuncDeinit(f, ctx, data) ==
    IF data.fn # f THEN Panic(ctx, "downcast")
    ELSE With(ParamsDeinit(ctx, data.params), LAMBDA c1 :
            Logged([(IF data.inst \in c1.hist.live THEN c1 ELSE Fault(c1, "double_deinit"))
                       EXCEPT !.hist.live = @ \ {data.inst},
                              !.hist.ptype = Without(@, {data.inst})],
                   "deinit", data.inst, 0))

----------------------------------------------------------------------------
(* EffectFunc (trait, lines 94-114): its state is a shared cell of the     *)
(* parameters' init data; the trait has init, call and needs_recalc.       *)

Noop == [k |-> "noop", i |-> 0, n |-> 0, func |-> "", props |-> 0]
CleanupClosure(i, n) == [k |-> "cleanup", i |-> i, n |-> n, func |-> "", props |-> 0]
RunClosure(i, f, p) == [k |-> "run", i |-> i, n |-> 0, func |-> f, props |-> p]

\* init: Rc<RefCell<..>> of the parameters' init data, in the heap under inst
EffectFuncInit(f, ctx) ==
    With(ParamsInit(EffectParams(f), <<>>, [ctx EXCEPT !.next = @ + 1]), LAMBDA r :
        [inst |-> ctx.next,
         ctx |-> Logged([r.ctx EXCEPT !.edata = @ @@ (ctx.next :>
                            [fn |-> f, params |-> r.params, runs |-> 0])],
                        "einit", ctx.next, 0)])

\* needs_recalc: over the parameters; the implementation of effA answers true
EffectFuncNeedsRecalc(f, ctx, inst) ==
    f = "effA" \/ ParamsNeedsRecalc(ctx, ctx.edata[inst].params)

\* the body of an effect function: effW resets the counter whose id it was
\* handed (StoreId::access_mut, which panics on a despawned entity); effO
\* writes 1 to the store that is its own parameter; the other effects only
\* read their parameters
EffectBody(f, ctx, p, items) ==
    IF f = "effO"
    THEN Logged(Written([ctx EXCEPT !.world = AccessStoreMut(@, items[1].id, 1)], items[1].id),
                "write", items[1].id, 1)
    ELSE IF f # "effW" THEN ctx
    ELSE IF ~StoreExists(ctx, p) THEN Panic(ctx, "no_entity")
    ELSE Logged(Written([ctx EXCEPT !.world = AccessStoreMut(@, p, 0)], p), "write", p, 0)

\* call: get_item of every parameter, run the body; the result is the cleanup
\* closure of this run
EffectFuncCall(f, ctx, p, inst) ==
    LET d == ctx.edata[inst]
        n == d.runs + 1
    IN IF d.fn # f THEN [cleanup |-> Noop, ctx |-> Panic(ctx, "downcast")]
       ELSE IF ParamsMissing(ctx, d.params)
       THEN [cleanup |-> Noop, ctx |-> Panic(ctx, "no_entity")]
       ELSE [cleanup |-> CleanupClosure(inst, n),
             ctx |-> EffectBody(f,
                        Logged(Observed([ctx EXCEPT !.edata[inst] = [d EXCEPT !.params = ParamsGet(ctx, d.params),
                                                                              !.runs = n],
                                                    !.hist.owed = @ \cup {CleanupClosure(inst, n)}],
                                        d.params),
                               "run", inst, n), p, ParamsItems(ctx, d.params))]

----------------------------------------------------------------------------
(* The deferred closures.                                                  *)

\* running a cleanup closure (the no-op cleanup does nothing)
ExecCleanup(f, ctx) ==
    IF f.k # "cleanup" THEN ctx
    ELSE Logged([(IF f \in ctx.hist.owed THEN ctx ELSE Fault(ctx, "cleanup_twice"))
                    EXCEPT !.hist.owed = @ \ {f}],
                "cleanup", f.i, f.n)

\* a variant of the closure that overwrites the pending cleanup without running it
ExecRunNoCleanup(f, ctx) ==
    LET r == EffectFuncCall(f.func, ctx, f.props, f.i)
    IN [r.ctx EXCEPT !.cells[f.i] = r.cleanup]

\* the closure pushed by MountedWidgetEffectComponent::process (lines 538-545)
ExecRun(f, ctx) ==
    With(ExecCleanup(ctx.cells[f.i], [ctx EXCEPT !.cells[f.i] = Noop]), LAMBDA c1 :
    With(EffectFuncCall(f.func, c1, f.props, f.i), LAMBDA r :
        [r.ctx EXCEPT !.cells[f.i] = r.cleanup]))

Exec(f, ctx) == IF f.k = "run" THEN ExecRun(f, ctx) ELSE ExecCleanup(f, ctx)

RECURSIVE DrainReversed(_, _)
\* a variant of the drain that runs the closures last to first
DrainReversed(fs, ctx) ==
    IF fs = <<>> THEN ctx
    ELSE DrainReversed(SubSeq(fs, 1, Len(fs) - 1), Exec(fs[Len(fs)], ctx))

RECURSIVE Drain(_, _)
\* execute_at_end.drain(..).for_each(|f| f(ctx))
Drain(fs, ctx) == IF fs = <<>> THEN ctx ELSE Drain(Tail(fs), Exec(Head(fs), ctx))

----------------------------------------------------------------------------
(* The mounted tree: enum MountedWidgetNode.                               *)

MNone == [k |-> "None"]
MComponent(t, r, d) == [k |-> "Component", template |-> t, result |-> r, init_data |-> d]
\* init_data and cleanup_fn are the two Rcs made at mount, both under inst
MEffect(t, i) == [k |-> "Effect", template |-> t, init_data |-> i, cleanup_fn |-> i]
MUnit(u, c) == [k |-> "Unit", unit |-> u, children |-> c]
MGroup(ro, ord, named) == [k |-> "Group", render_order |-> ro, ordered |-> ord, named |-> named]

\* the (func, props) pair kept as template: WidgetComponent::clone
Template(c) == [func |-> c.func, props |-> c.props]

\* the keys of a map in the order this HashMap iterates them
NameSeq(ctx, ks) == SelectSeq(ctx.ord, LAMBDA n : n \in ks)
IndexOf(seq, x) == CHOOSE i \in 1 .. Len(seq) : seq[i] = x

RECURSIVE ComponentInsts(_), EffectInsts(_)
\* the hook states owned by the Component nodes of a mounted tree
ComponentInsts(m) ==
    CASE m.k = "Component" -> {m.init_data.inst} \cup ComponentInsts(m.result)
      [] m.k = "Unit" -> ComponentInsts(m.children)
      [] m.k = "Group" -> UNION ({ComponentInsts(m.ordered[i]) : i \in DOMAIN m.ordered}
                                 \cup {ComponentInsts(m.named[n]) : n \in DOMAIN m.named})
      [] OTHER -> {}

\* the Effect nodes of a mounted tree, by instance
EffectInsts(m) ==
    CASE m.k = "Effect" -> {m.init_data}
      [] m.k = "Component" -> EffectInsts(m.result)
      [] m.k = "Unit" -> EffectInsts(m.children)
      [] m.k = "Group" -> UNION ({EffectInsts(m.ordered[i]) : i \in DOMAIN m.ordered}
                                 \cup {EffectInsts(m.named[n]) : n \in DOMAIN m.named})
      [] OTHER -> {}

RECURSIVE MountNode(_, _), MountList(_, _, _), UnmountNode(_, _), UnmountList(_, _),
          ProcessNode(_, _), ProcessList(_, _, _), ProcessComponent(_, _, _),
          DiffNode(_, _, _), DiffList(_, _, _, _), DiffNamed(_, _, _, _, _),
          DiffNamedRemount(_, _, _, _, _)

\* WidgetEffectComponent::mount: init only; the cleanup cell starts as a no-op
MountEffect(c, ctx) ==
    With(EffectFuncInit(c.func, ctx), LAMBDA r :
        [node |-> MEffect(Template(c), r.inst),
         ctx |-> [r.ctx EXCEPT !.cells = @ @@ (r.inst :> Noop)]])

\* a variant of mount that leaves the first call to the next pass
MountComponentDeferred(c, ctx) ==
    With(WidgetFuncInit(c.func, ctx), LAMBDA i :
        [node |-> MComponent(Template(c), MNone, i.data), ctx |-> i.ctx])

\* WidgetComponent::mount: init, call, mount the result
MountComponent(c, ctx) ==
    With(WidgetFuncInit(c.func, ctx), LAMBDA i :
    With(WidgetFuncCall(c.func, Adopted(i.ctx, i.data.inst, c.func), c.props, i.data), LAMBDA r :
    With(MountNode(r.node, r.ctx), LAMBDA m :
        [node |-> MComponent(Template(c), m.node, r.data), ctx |-> m.ctx])))

\* WidgetNodeGroup::mount: the named children in map order, then the ordered ones
MountGroup(g, ctx) ==
    With(NameSeq(ctx, DOMAIN g.named), LAMBDA ns :
    With(MountList([i \in 1 .. Len(ns) |-> g.named[ns[i]]], <<>>, ctx), LAMBDA a :
    With(MountList(g.ordered, <<>>, a.ctx), LAMBDA b :
        [node |-> MGroup(g.render_order, b.nodes,
                         [n \in DOMAIN g.named |-> a.nodes[IndexOf(ns, n)]]),
         ctx |-> b.ctx])))

\* WidgetNode::mount
MountNode(n, ctx) ==
    CASE n.k = "None" -> [node |-> MNone, ctx |-> ctx]
      [] n.k = "Component" -> MountComponent(n, ctx)
      [] n.k = "Effect" -> MountEffect(n, ctx)
      [] n.k = "Unit" -> With(MountNode(n.children, ctx), LAMBDA r :
                            [node |-> MUnit(n.unit, r.node), ctx |-> r.ctx])
      [] n.k = "Group" -> MountGroup(n, ctx)

MountList(ds, acc, ctx) ==
    IF ds = <<>> THEN [nodes |-> acc, ctx |-> ctx]
    ELSE With(MountNode(Head(ds), ctx), LAMBDA r :
            MountList(Tail(ds), Append(acc, r.node), r.ctx))

\* MountedWidgetEffectComponent::unmount: take the cleanup out of the cell and
\* push it on execute_at_end
UnmountEffect(m, ctx) ==
    Logged([ctx EXCEPT !.q = Append(@, ctx.cells[m.cleanup_fn]),
                       !.cells[m.cleanup_fn] = Noop],
           "enqc", m.init_data, ctx.cells[m.cleanup_fn].n)

\* a variant of unmount that forgets deinit
UnmountComponentNoDeinit(m, ctx) == UnmountNode(m.result, ctx)

\* a variant of unmount that deinits the component before its result
UnmountComponentParentFirst(m, ctx) ==
    UnmountNode(m.result, WidgetFuncDeinit(m.template.func, ctx, m.init_data))

\* MountedWidgetComponent::unmount: the result, then deinit
\* (the log then names the Effect nodes that were below the component)
UnmountComponent(m, ctx) ==
    LET c == WidgetFuncDeinit(m.template.func, UnmountNode(m.result, ctx), m.init_data)
    IN [c EXCEPT !.log = Append(@, [Ev("unmounted", m.init_data.inst, 0) EXCEPT
                                       !.olds = EffectInsts(m.result)])]

\* MountedWidgetNodeGroup::unmount: named (map order) chained with ordered
UnmountGroup(m, ctx) ==
    LET ns == NameSeq(ctx, DOMAIN m.named)
    IN UnmountList([i \in 1 .. Len(ns) |-> m.named[ns[i]]] \o m.ordered, ctx)

\* MountedWidgetNode::unmount
UnmountNode(m, ctx) ==
    CASE m.k = "None" -> ctx
      [] m.k = "Component" -> UnmountComponent(m, ctx)
      [] m.k = "Effect" -> UnmountEffect(m, ctx)
      [] m.k = "Unit" -> UnmountNode(m.children, ctx)
      [] m.k = "Group" -> UnmountGroup(m, ctx)

UnmountList(ms, ctx) ==
    IF ms = <<>> THEN ctx ELSE UnmountList(Tail(ms), UnmountNode(Head(ms), ctx))

\* std::mem::replace(this, new.mount(ctx)).unmount(ctx): the argument is
\* evaluated first, so the new subtree is mounted, then the old one unmounted
Replace(m, n, ctx) ==
    With(MountNode(n, ctx), LAMBDA r :
        [node |-> r.node,
         ctx |-> [UnmountNode(m, r.ctx) EXCEPT !.log = Append(@, [Ev("replaced", 0, 0) EXCEPT
                                  !.olds = ComponentInsts(m) \cup EffectInsts(m),
                                  !.news = ComponentInsts(r.node) \cup EffectInsts(r.node)])]])

\* a variant of process that runs the closure at once, inside the traversal
ProcessEffectSync(m, ctx, force_recalc) ==
    IF force_recalc \/ EffectFuncNeedsRecalc(m.template.func, ctx, m.init_data)
    THEN [node |-> m,
          ctx |-> ExecRun(RunClosure(m.init_data, m.template.func, m.template.props), ctx)]
    ELSE [node |-> m, ctx |-> ctx]

\* MountedWidgetEffectComponent::process: push a closure that runs the pending
\* cleanup, then the body, and stores the new cleanup
ProcessEffect(m, ctx, force_recalc) ==
    IF force_recalc \/ EffectFuncNeedsRecalc(m.template.func, ctx, m.init_data)
    THEN [node |-> m,
          ctx |-> Logged([ctx EXCEPT !.q = Append(@, RunClosure(m.init_data, m.template.func,
                                                                m.template.props))],
                         "enq", m.init_data, 0)]
    ELSE [node |-> m, ctx |-> ctx]

\* a variant of process that recomputes a component without effects below
\* it whether or not anything changed
ProcessComponentEager(m, ctx, force_recalc) ==
    IF ~force_recalc /\ WidgetFuncNeedsRecalcPanics(m.template.func, ctx, m.init_data)
    THEN [node |-> m, ctx |-> Panic(ctx, "needs_recalc")]
    ELSE IF ~force_recalc /\ ~WidgetFuncNeedsRecalc(m.template.func, ctx, m.init_data)
                         /\ EffectInsts(m.result) # {}
    THEN LET r == ProcessNode(m.result, ctx)
         IN [node |-> [m EXCEPT !.result = r.node], ctx |-> r.ctx]
    ELSE LET c == WidgetFuncCall(m.template.func, ctx, m.template.props, m.init_data)
             d == DiffNode(m.result, c.node, c.ctx)
         IN [node |-> [m EXCEPT !.result = d.node, !.init_data = c.data], ctx |-> d.ctx]

\* a variant of process that leaves the result subtree of a component that
\* is not recomputed alone
ProcessComponentShallow(m, ctx, force_recalc) ==
    IF ~force_recalc /\ WidgetFuncNeedsRecalcPanics(m.template.func, ctx, m.init_data)
    THEN [node |-> m, ctx |-> Panic(ctx, "needs_recalc")]
    ELSE IF ~force_recalc /\ ~WidgetFuncNeedsRecalc(m.template.func, ctx, m.init_data)
    THEN [node |-> m, ctx |-> ctx]
    ELSE With(WidgetFuncCall(m.template.func, ctx, m.template.props, m.init_data), LAMBDA c :
         With(DiffNode(m.result, c.node, c.ctx), LAMBDA d :
            [node |-> [m EXCEPT !.result = d.node, !.init_data = c.data], ctx |-> d.ctx]))

\* MountedWidgetComponent::process
ProcessComponent(m, ctx, force_recalc) ==
    IF ~force_recalc /\ WidgetFuncNeedsRecalcPanics(m.template.func, ctx, m.init_data)
    THEN [node |-> m, ctx |-> Panic(ctx, "needs_recalc")]
    ELSE IF ~force_recalc /\ ~WidgetFuncNeedsRecalc(m.template.func, ctx, m.init_data)
    THEN With(ProcessNode(m.result, Checked(ctx, m.init_data)), LAMBDA r :
            [node |-> [m EXCEPT !.result = r.node], ctx |-> r.ctx])
    ELSE With(WidgetFuncCall(m.template.func, ctx, m.template.props, m.init_data), LAMBDA c :
         With(DiffNode(m.result, c.node, c.ctx), LAMBDA d :
            [node |-> [m EXCEPT !.result = d.node, !.init_data = c.data], ctx |-> d.ctx]))

\* MountedWidgetNodeGroup::process: named (map order) chained with ordered
ProcessGroup(m, ctx) ==
    With(NameSeq(ctx, DOMAIN m.named), LAMBDA ns :
    With(ProcessList([i \in 1 .. Len(ns) |-> m.named[ns[i]]], <<>>, ctx), LAMBDA a :
    With(ProcessList(m.ordered, <<>>, a.ctx), LAMBDA b :
        [node |-> [m EXCEPT !.ordered = b.nodes,
                            !.named = [n \in DOMAIN m.named |-> a.nodes[IndexOf(ns, n)]]],
         ctx |-> b.ctx])))

\* MountedWidgetNode::process
ProcessNode(m, ctx) ==
    CASE m.k = "None" -> [node |-> m, ctx |-> ctx]
      [] m.k = "Component" -> ProcessComponent(m, ctx, FALSE)
      [] m.k = "Effect" -> ProcessEffect(m, ctx, FALSE)
      [] m.k = "Unit" -> With(ProcessNode(m.children, ctx), LAMBDA r :
                            [node |-> [m EXCEPT !.children = r.node], ctx |-> r.ctx])
      [] m.k = "Group" -> ProcessGroup(m, ctx)

ProcessList(ms, acc, ctx) ==
    IF ms = <<>> THEN [nodes |-> acc, ctx |-> ctx]
    ELSE With(ProcessNode(Head(ms), ctx), LAMBDA r :
            ProcessList(Tail(ms), Append(acc, r.node), r.ctx))

\* variants of diff that ignore the function identity
DiffComponentAlwaysReplace(m, new, ctx) == Replace(m, new, ctx)

DiffComponentAlwaysPatch(m, new, ctx) ==
    ProcessComponent([m EXCEPT !.template.props = new.props], ctx, TRUE)

\* a variant of diff that recomputes a patched component only if needs_recalc
DiffComponentLazy(m, new, ctx) ==
    IF m.template.func = new.func
    THEN ProcessComponent([m EXCEPT !.template.props = new.props], ctx, FALSE)
    ELSE Replace(m, new, ctx)

\* a variant of diff that adopts the descriptor of any function, keeping the
\* hook state
DiffComponentAdoptAny(m, new, ctx) ==
    ProcessComponent([m EXCEPT !.template = Template(new)],
                     Adopted(ctx, m.init_data.inst, new.func), TRUE)

\* MountedWidgetComponent::diff: the same function identity is patched in
\* place and recomputed; another one replaces the instance
DiffComponent(m, new, ctx) ==
    IF m.template.func = new.func
    THEN ProcessComponent([m EXCEPT !.template.props = new.props],
                          Adopted(ctx, m.init_data.inst, new.func), TRUE)
    ELSE Replace(m, new, ctx)

\* MountedWidgetEffectComponent::diff: the same identity is patched and its
\* re-run enqueued; there is no else branch
DiffEffect(m, new, ctx) ==
    IF m.template.func = new.func
    THEN ProcessEffect([m EXCEPT !.template.props = new.props], ctx, TRUE)
    ELSE [node |-> m, ctx |-> ctx]

\* a variant of the group diff that truncates the ordered children without
\* unmounting them
DiffGroupDropOnly(m, new, ctx) ==
    LET nlen == Len(new.ordered)
        olen == Len(m.ordered)
        keep == IF nlen < olen THEN nlen ELSE olen
        a == DiffList(SubSeq(m.ordered, 1, keep), SubSeq(new.ordered, 1, keep), <<>>, ctx)
        ns == NameSeq(ctx, DOMAIN m.named)
        kept == SelectSeq(ns, LAMBDA n : n \in DOMAIN new.named)
        b == DiffNamed(ns, m.named, new.named, <<>>, a.ctx)
    IN [node |-> MGroup(new.render_order, a.nodes,
                        [n \in DOMAIN m.named \cap DOMAIN new.named |-> b.nodes[IndexOf(kept, n)]]),
        ctx |-> b.ctx]

\* MountedWidgetNodeGroup::diff
DiffGroup(m, new, ctx) ==
    LET nlen == Len(new.ordered)
        olen == Len(m.ordered)
        keep == IF nlen < olen THEN nlen ELSE olen
    IN With(IF nlen < olen THEN UnmountList(SubSeq(m.ordered, nlen + 1, olen), ctx) ELSE ctx,
            LAMBDA c1 :
       With(DiffList(SubSeq(m.ordered, 1, keep), SubSeq(new.ordered, 1, keep), <<>>, c1),
            LAMBDA a :
       With(NameSeq(ctx, DOMAIN m.named), LAMBDA ns :
       With(SelectSeq(ns, LAMBDA n : n \in DOMAIN new.named), LAMBDA kept :
       With(DiffNamed(ns, m.named, new.named, <<>>, a.ctx), LAMBDA b :
          [node |-> MGroup(new.render_order, a.nodes,
                           [n \in DOMAIN m.named \cap DOMAIN new.named |->
                               b.nodes[IndexOf(kept, n)]]),
           ctx |-> b.ctx])))))

\* the zip of the old ordered children with the new ones
DiffList(ms, ds, acc, ctx) ==
    IF ms = <<>> \/ ds = <<>> THEN [nodes |-> acc, ctx |-> ctx]
    ELSE With(DiffNode(Head(ms), Head(ds), ctx), LAMBDA r :
            DiffList(Tail(ms), Tail(ds), Append(acc, r.node), r.ctx))

\* a variant of the named diff that remounts the entries that stay
DiffNamedRemount(ns, old, new, acc, ctx) ==
    IF ns = <<>> THEN [nodes |-> acc, ctx |-> ctx]
    ELSE IF Head(ns) \in DOMAIN new
    THEN LET r == Replace(old[Head(ns)], new[Head(ns)], ctx)
         IN DiffNamedRemount(Tail(ns), old, new, Append(acc, r.node), r.ctx)
    ELSE DiffNamedRemount(Tail(ns), old, new, acc, UnmountNode(old[Head(ns)], ctx))

\* drain_filter over the old named map: an entry with a new counterpart is
\* diffed and stays, any other is removed and unmounted
DiffNamed(ns, old, new, acc, ctx) ==
    IF ns = <<>> THEN [nodes |-> acc, ctx |-> ctx]
    ELSE IF Head(ns) \in DOMAIN new
    THEN With(DiffNode(old[Head(ns)], new[Head(ns)], ctx), LAMBDA r :
            DiffNamed(Tail(ns), old, new, Append(acc, r.node), r.ctx))
    ELSE DiffNamed(Tail(ns), old, new, acc, UnmountNode(old[Head(ns)], ctx))

\* a variant of diff that remounts a Unit instead of patching it
DiffNodeRemountUnit(m, n, ctx) ==
    CASE m.k = "None" /\ n.k = "None" -> [node |-> m, ctx |-> ctx]
      [] m.k = "Component" /\ n.k = "Component" -> DiffComponent(m, n, ctx)
      [] m.k = "Effect" /\ n.k = "Effect" -> DiffEffect(m, n, ctx)
      [] m.k = "Group" /\ n.k = "Group" -> DiffGroup(m, n, ctx)
      [] OTHER -> Replace(m, n, ctx)

\* a variant of diff that mounts the new node over a node of another variant
\* without unmounting the old one
DiffNodeOverwrite(m, n, ctx) ==
    CASE m.k = "None" /\ n.k = "None" -> [node |-> m, ctx |-> ctx]
      [] m.k = "Component" /\ n.k = "Component" -> DiffComponent(m, n, ctx)
      [] m.k = "Effect" /\ n.k = "Effect" -> DiffEffect(m, n, ctx)
      [] m.k = "Unit" /\ n.k = "Unit" ->
            LET r == DiffNode(m.children, n.children, ctx)
            IN [node |-> MUnit(n.unit, r.node), ctx |-> r.ctx]
      [] m.k = "Group" /\ n.k = "Group" -> DiffGroup(m, n, ctx)
      [] OTHER -> MountNode(n, ctx)

\* MountedWidgetNode::diff
DiffNode(m, n, ctx) ==
    CASE m.k = "None" /\ n.k = "None" -> [node |-> m, ctx |-> ctx]
      [] m.k = "Component" /\ n.k = "Component" -> DiffComponent(m, n, ctx)
      [] m.k = "Effect" /\ n.k = "Effect" -> DiffEffect(m, n, ctx)
      [] m.k = "Unit" /\ n.k = "Unit" ->
            With(DiffNode(m.children, n.children, ctx), LAMBDA r :
                [node |-> MUnit(n.unit, r.node), ctx |-> r.ctx])
      [] m.k = "Group" /\ n.k = "Group" -> DiffGroup(m, n, ctx)
      [] OTHER -> Replace(m, n, ctx)

----------------------------------------------------------------------------
(* Rendering: MountedWidgetNode::render.                                   *)

RECURSIVE RenderPanics(_), Render(_), RenderGroup(_, _)

\* g.ordered[*i] and g.named[s] panic on an index or a key that is not there
RenderPanics(m) ==
    CASE m.k = "Component" -> RenderPanics(m.result)
      [] m.k = "Unit" -> RenderPanics(m.children)
      [] m.k = "Group" ->
            \E j \in DOMAIN m.render_order :
                LET ios == m.render_order[j]
                IN IF ios.int
                   THEN ios.i + 1 \notin DOMAIN m.ordered \/ RenderPanics(m.ordered[ios.i + 1])
                   ELSE ios.s \notin DOMAIN m.named \/ RenderPanics(m.named[ios.s])
      [] OTHER -> FALSE

\* the flat_map over render_order
RenderGroup(g, ro) ==
    IF ro = <<>> THEN <<>>
    ELSE (IF Head(ro).int THEN Render(g.ordered[Head(ro).i + 1]) ELSE Render(g.named[Head(ro).s]))
         \o RenderGroup(g, Tail(ro))

\* the Vec<RenderNode> of a mounted node
Render(m) ==
    CASE m.k = "Component" -> Render(m.result)
      [] m.k = "Unit" -> <<[unit |-> m.unit, children |-> Render(m.children)]>>
      [] m.k = "Group" -> RenderGroup(m, m.render_order)
      [] OTHER -> <<>>

RECURSIVE Components(_), Plain(_)
\* the Component nodes of a mounted tree
Components(m) ==
    CASE m.k = "Component" -> {m} \cup Components(m.result)
      [] m.k = "Unit" -> Components(m.children)
      [] m.k = "Group" -> UNION ({Components(m.ordered[i]) : i \in DOMAIN m.ordered}
                                 \cup {Components(m.named[n]) : n \in DOMAIN m.named})
      [] OTHER -> {}

\* a mounted tree without the ticks of its store handles
Plain(m) ==
    CASE m.k = "Component" ->
            [k |-> m.k, template |-> m.template, result |-> Plain(m.result),
             inst |-> m.init_data.inst, fn |-> m.init_data.fn]
      [] m.k = "Unit" -> [m EXCEPT !.children = Plain(m.children)]
      [] m.k = "Group" ->
            [m EXCEPT !.ordered = [i \in DOMAIN m.ordered |-> Plain(m.ordered[i])],
                      !.named = [n \in DOMAIN m.named |-> Plain(m.named[n])]]
      [] OTHER -> m

----------------------------------------------------------------------------
(* The heap of shared cells.                                               *)

\* the Rcs still referenced: by a mounted Effect node or by a pending closure
Referenced(node, q) ==
    EffectInsts(node) \cup {q[j].i : j \in {j \in DOMAIN q : q[j].k = "run"}}

Restrict(f, ks) == [x \in DOMAIN f \cap ks |-> f[x]]

----------------------------------------------------------------------------
(* Application.                                                            *)

NoHist == [owed |-> {}, faults |-> {}, live |-> {}, seen |-> {}, dirty |-> {}, ptype |-> <<>>]

Init ==
    /\ arg = WComponent("rootw", 0)
    /\ root = MNone
    /\ world = [tick |-> 1, stores |-> <<>>]
    /\ execute_at_end = <<>>
    /\ cells = <<>>
    /\ edata = <<>>
    /\ next = 1
    /\ pc = "new"
    /\ log = <<>>
    /\ hist = NoHist
    /\ rendered = <<>>
    /\ group = GroupDefault
    /\ pushes = <<>>

\* the context of a traversal or a drain started now, with log l
Now(l, ord) == Ctx(world, execute_at_end, cells, edata, next, l, hist, ord)

InBounds(ctx) == ctx.next <= MaxAlloc + 1 /\ ctx.world.tick <= MaxTick

\* the state after a step of new/update that ended with node and ctx
Commit(node, ctx, at) ==
    /\ InBounds(ctx)
    /\ root' = node
    /\ world' = ctx.world
    /\ execute_at_end' = ctx.q
    /\ cells' = Restrict(ctx.cells, Referenced(node, ctx.q))
    /\ edata' = Restrict(ctx.edata, Referenced(node, ctx.q))
    /\ next' = ctx.next
    /\ log' = ctx.log
    /\ hist' = ctx.hist
    /\ pc' = IF ctx.panic THEN "panic" ELSE at
    /\ rendered' = <<>>
    /\ UNCHANGED <<arg, group, pushes>>

\* B::mark_update on the context
Marked(ctx) == Logged([ctx EXCEPT !.world = MarkUpdate(@)], "mark", 0, 0)

\* Application::new, lines 37-46: mount the root
NewMount ==
    /\ pc = "new"
    /\ \E ord \in NameOrders :
       \E r \in {MountNode(arg, Logged(Now(<<>>, ord), "pass", 0, 0))} :
          Commit(r.node, Logged(r.ctx, "passend", 0, 0), "newdrain")

\* Application::new, lines 47-51: run the deferred closures, mark_update, and
\* enter update
NewDrain ==
    /\ pc = "newdrain"
    /\ \E ord \in NameOrders :
       \E c \in {Drain(execute_at_end, Logged([Now(log, ord) EXCEPT !.q = <<>>], "drain", 0, 0))} :
          Commit(root, Marked(c), "pass")

\* what the loop of update depends on at the start of an iteration, with
\* every tick replaced by what is_changed and later reads and writes can
\* tell about it: whether the store changed after the handle's last read,
\* and whether the tick is the current one
Situation ==
    LET w == [world |-> world]
        handle(d) == [id |-> d.id,
                      changed |-> CheckStoreNeedsRecalc(w, d),
                      now |-> d.tick = world.tick]
        handles(ps) == [i \in DOMAIN ps |-> handle(ps[i])]
    IN [tree |-> Plain(root),
        owners |-> {[inst |-> c.init_data.inst, params |-> handles(c.init_data.params)] :
                       c \in Components(root)},
        stores |-> [id \in DOMAIN world.stores |->
                       [val |-> world.stores[id].val,
                        now |-> world.stores[id].changed = world.tick]],
        effects |-> [i \in DOMAIN edata |-> [fn |-> edata[i].fn, params |-> handles(edata[i].params)]],
        cleanups |-> [i \in DOMAIN cells |-> cells[i].k],
        next |-> next]

\* a variant of update that gives up after three reconcile passes
UpdatePassCapped ==
    /\ pc \in {"idle", "pass"}
    /\ \E ord \in NameOrders :
       \E r \in {ProcessNode(root, Logged(Now(IF pc = "idle" THEN <<>> ELSE log, ord), "pass", 0, 0))} :
       \E c \in {Marked(Logged(r.ctx, "passend", 0, 0))} :
       \E capped \in {pc = "pass" /\ Cardinality({j \in DOMAIN log : log[j].e = "pass"}) >= 2} :
          Commit(r.node,
                 [c EXCEPT !.q = IF capped THEN <<>> ELSE @,
                           !.hist.seen = IF c.q = <<>> \/ capped THEN {}
                                         ELSE hist.seen \cup {Situation}],
                 IF c.q = <<>> \/ capped THEN "idle" ELSE "drain")

\* Application::update, lines 21-31: one reconcile pass, mark_update, and the
\* test of execute_at_end.  From "idle" this is the call of update.  (The
\* bookkeeping remembers the situations the passes of this call started in.)
UpdatePass ==
    /\ pc \in {"idle", "pass"}
    /\ \E ord \in NameOrders :
       \E r \in {ProcessNode(root, Logged(Now(IF pc = "idle" THEN <<>> ELSE log, ord), "pass", 0, 0))} :
       \E c \in {Marked(Logged(r.ctx, "passend", 0, 0))} :
          Commit(r.node,
                 [c EXCEPT !.hist.seen = IF c.q = <<>> THEN {} ELSE hist.seen \cup {Situation}],
                 IF c.q = <<>> THEN "idle" ELSE "drain")

\* Application::update, line 32: run the deferred closures
UpdateDrain ==
    /\ pc = "drain"
    /\ \E ord \in NameOrders :
       \E c \in {Drain(execute_at_end, Logged([Now(log, ord) EXCEPT !.q = <<>>], "drain", 0, 0))} :
          Commit(root, c, "pass")

RECURSIVE StoreIds(_)
\* the stores whose handle a mounted Component holds
StoreIds(m) ==
    CASE m.k = "Component" -> {m.init_data.params[i].id : i \in DOMAIN m.init_data.params}
                              \cup StoreIds(m.result)
      [] m.k = "Unit" -> StoreIds(m.children)
      [] m.k = "Group" -> UNION ({StoreIds(m.ordered[i]) : i \in DOMAIN m.ordered}
                                 \cup {StoreIds(m.named[n]) : n \in DOMAIN m.named})
      [] OTHER -> {}

\* the stores of the mounted Effect nodes
EffectStoreIds(m) ==
    UNION {{edata[i].params[j].id : j \in DOMAIN edata[i].params} : i \in EffectInsts(m)}

RootStore == root.init_data.params[1].id

\* the values the root's store selects a tree by
RootPages == IF root.template.func = "rootl" THEN LoopPages ELSE Pages

\* a callback writes a store through its StoreId (StoreId::access_mut) and
\* the host then calls update (ui3-web-backend access_ctx: f(ctx), then
\* tick): the root's store selects a page, the counter of any other mounted
\* component or effect is incremented or decremented (web-example app)
Mutate ==
    /\ pc = "idle"
    /\ \E id \in StoreIds(root) \cup EffectStoreIds(root) :
       \E v \in (IF id = RootStore THEN RootPages
                 ELSE {world.stores[id].val + 1, world.stores[id].val - 1} \cap Vals) :
          /\ world' = AccessStoreMut(world, id, v)
          /\ log' = <<Ev("mutate", id, v)>>
          /\ hist' = [hist EXCEPT !.dirty = @ \cup {id}]
    /\ pc' = "pass"
    /\ rendered' = <<>>
    /\ UNCHANGED <<root, execute_at_end, cells, edata, next, arg, group, pushes>>

\* a variant of render that takes the tree out of the application
RenderCallTaking ==
    /\ pc = "idle"
    /\ Len(rendered) < MaxRenders
    /\ ~RenderPanics(root)
    /\ rendered' = Append(rendered, Render(root))
    /\ root' = MNone
    /\ UNCHANGED <<world, execute_at_end, cells, edata, next, pc, log, hist, arg, group, pushes>>

\* Application::render, called by the host between two updates (Runtime::tick
\* renders after update); a panic of the traversal ends the program
RenderCall ==
    /\ pc = "idle"
    /\ Len(rendered) < MaxRenders
    /\ IF RenderPanics(root)
       THEN pc' = "panic" /\ UNCHANGED rendered
       ELSE pc' = pc /\ rendered' = Append(rendered, Render(root))
    /\ UNCHANGED <<root, world, execute_at_end, cells, edata, next, log, hist, arg, group, pushes>>

Next == NewMount \/ NewDrain \/ UpdatePass \/ UpdateDrain \/ Mutate \/ RenderCall

Spec == Init /\ [][Next]_vars

\* the application whose root is rootl
LoopInit ==
    /\ arg = WComponent("rootl", 0)
    /\ root = MNone
    /\ world = [tick |-> 1, stores |-> <<>>]
    /\ execute_at_end = <<>>
    /\ cells = <<>>
    /\ edata = <<>>
    /\ next = 1
    /\ pc = "new"
    /\ log = <<>>
    /\ hist = NoHist
    /\ rendered = <<>>
    /\ group = GroupDefault
    /\ pushes = <<>>

LoopSpec == LoopInit /\ [][Next]_vars

----------------------------------------------------------------------------
(* Application code building a group: WidgetNodeGroup::default followed by *)
(* push and push_named calls, before the group is handed to the engine.    *)

\* the nodes application code pushes
GroupNodes == {WNone, WComponent("textw", 0)}

appvars == <<root, world, execute_at_end, cells, edata, next, pc, log, hist, arg, rendered>>

\* group.push(node)
GroupPush ==
    /\ ~group.panicked
    /\ Len(pushes) < MaxPushes
    /\ \E node \in GroupNodes :
          /\ group' = Push(group, node)
          /\ pushes' = Append(pushes, [named |-> FALSE, name |-> "", node |-> node])
    /\ UNCHANGED appvars

\* group.push_named(node, name); after a panic the group is not used again
GroupPushNamed ==
    /\ ~group.panicked
    /\ Len(pushes) < MaxPushes
    /\ \E node \in GroupNodes, name \in Names :
          /\ group' = PushNamed(group, node, name)
          /\ pushes' = Append(pushes, [named |-> TRUE, name |-> name, node |-> node])
    /\ UNCHANGED appvars

GroupNext == GroupPush \/ GroupPushNamed

GroupSpec == Init /\ [][GroupNext]_vars

----------------------------------------------------------------------------
(* Properties.                                                             *)

LogIdx == DOMAIN log
Mounted == pc \in {"newdrain", "pass", "drain", "idle"}

\* C1: at every pass boundary the component hook states that were init'ed
\* and not yet deinit'ed are exactly those owned by the Component nodes of
\* the mounted tree, their stores are alive, and none was deinit'ed twice
C1_MountUnmountPairing ==
    Mounted =>
        /\ hist.live = ComponentInsts(root)
        /\ StoreIds(root) \subseteq DOMAIN world.stores
        /\ "double_deinit" \notin hist.faults
        /\ "use_after_deinit" \notin hist.faults

\* a component was unmounted and deinit'ed in the update that just returned
C1_Witness ==
    /\ pc = "idle"
    /\ \E j \in LogIdx : log[j].e = "deinit"
    /\ hist.live # {}

\* C2: the stores created by the init of an Effect node do not outlive the
\* node: every store of the world belongs to a mounted Component or Effect
C2_EffectStateReleased ==
    Mounted => DOMAIN world.stores \subseteq StoreIds(root) \cup EffectStoreIds(root)

\* the root recomputes in the pass about to run, and what rootw returns then
RootRecalc ==
    /\ pc = "pass"
    /\ root.k = "Component"
    /\ WidgetFuncNeedsRecalc(root.template.func, [world |-> world], root.init_data)
NewPage == Page(world.stores[RootStore].val)

ParamIds(data) == {data.params[i].id : i \in DOMAIN data.params}

\* the pass diffs the mounted Component below the root against a Component
\* descriptor of the same function and other properties
C3_Case ==
    /\ RootRecalc
    /\ root.result.k = "Component"
    /\ NewPage.k = "Component"
    /\ NewPage.func = root.result.template.func
    /\ NewPage.props # root.result.template.props

C3_Step ==
    C3_Case =>
        /\ root'.result.k = "Component"
        /\ root'.result.init_data.inst = root.result.init_data.inst
        /\ root'.result.init_data.fn = root.result.init_data.fn
        /\ ParamIds(root'.result.init_data) = ParamIds(root.result.init_data)
        /\ \A id \in ParamIds(root.result.init_data) :
              /\ id \in DOMAIN world'.stores
              /\ world'.stores[id].val = world.stores[id].val
        /\ root'.result.template = [func |-> NewPage.func, props |-> NewPage.props]
        /\ \A j \in DOMAIN log' :
              log'[j].e \in {"init", "deinit"} => log'[j].i # root.result.init_data.inst
        /\ root.result.init_data.inst \in hist'.live

\* C3: a diff against a Component descriptor of the same function identity
\* and different properties keeps the instance: no init, no deinit, the same
\* store handle and store value, only the properties are replaced
C3_SameIdentityKeepsState == [][C3_Step]_vars

\* fw was patched from property 0 to property 1 in the update that returned,
\* and its counter still holds the 1 written before
C3_Witness ==
    /\ pc = "idle"
    /\ root.result.k = "Component"
    /\ root.result.template = [func |-> "fw", props |-> 1]
    /\ world.stores[root.result.init_data.params[1].id].val = 1
    /\ \E j \in LogIdx : log[j] = Ev("call", root.result.init_data.inst, 0)
    /\ \A j \in LogIdx : log[j].e # "init"

\* the pass diffs the mounted Component below the root against a Component
\* descriptor of another function
C4_Case ==
    /\ RootRecalc
    /\ root.result.k = "Component"
    /\ NewPage.k = "Component"
    /\ NewPage.func # root.result.template.func

C4_Step ==
    C4_Case =>
        /\ root'.result.k = "Component"
        /\ root'.result.template = [func |-> NewPage.func, props |-> NewPage.props]
        /\ root'.result.init_data.fn = NewPage.func
        \* the new hook state is fresh, its store is new and holds the default
        /\ root'.result.init_data.inst \notin hist.live
        /\ \A id \in ParamIds(root'.result.init_data) :
              /\ id \notin DOMAIN world.stores
              /\ world'.stores[id].val = 0
        /\ \E j \in DOMAIN log' : log'[j] = Ev("init", root'.result.init_data.inst, 0)
        \* the old instance and its whole result subtree are gone
        /\ ComponentInsts(root.result) \cap hist'.live = {}
        /\ \A i \in ComponentInsts(root.result) :
              \E j \in DOMAIN log' : log'[j] = Ev("deinit", i, 0)
        /\ ParamIds(root.result.init_data) \cap DOMAIN world'.stores = {}
        /\ EffectInsts(root.result) \cap EffectInsts(root') = {}
        /\ \A i \in EffectInsts(root.result) :
              \E j \in DOMAIN log' : log'[j].e = "enqc" /\ log'[j].i = i

\* C4: a diff against a Component descriptor of a different function
\* identity resets the node: the old instance and its result subtree are
\* unmounted and deinit'ed, the new instance has fresh hook state
C4_OtherIdentityResets == [][C4_Step]_vars

\* gw replaced fw (and the effect below it) in the update that returned
C4_Witness ==
    /\ pc = "idle"
    /\ root.result.k = "Component"
    /\ root.result.template.func = "gw"
    /\ \E j \in LogIdx :
          /\ log[j].e = "replaced"
          /\ root.result.init_data.inst \in log[j].news
          /\ \E a \in LogIdx : log[a].e = "deinit" /\ log[a].i \in log[j].olds
          /\ \E a \in LogIdx : log[a].e = "enqc" /\ log[a].i \in log[j].olds

\* C5: when a node is replaced, every deinit (and effect unmount) of the old
\* subtree comes before any init or call of the new subtree
C5_UnmountBeforeMount ==
    \A j \in LogIdx :
        log[j].e = "replaced" =>
            \A a, b \in 1 .. j :
                (/\ log[a].e \in {"deinit", "enqc"}
                 /\ log[a].i \in log[j].olds
                 /\ log[b].e \in {"init", "einit", "call"}
                 /\ log[b].i \in log[j].news) => a < b

\* the cleanup closures some cell or the execute_at_end list still holds
Held ==
    {cells[i] : i \in DOMAIN cells} \cup {execute_at_end[j] : j \in DOMAIN execute_at_end}

\* C6: a run of the body of an effect comes right after the run of the
\* cleanup its previous run returned (after none for the first run); no
\* cleanup closure runs twice or is dropped; once the call has returned, the
\* only cleanups still owed are those of the last runs of the mounted effects
C6_EffectCleanupOrder ==
    /\ \A j \in LogIdx :
          log[j].e = "run" =>
              IF log[j].n = 1
              THEN ~(j > 1 /\ log[j - 1].e = "cleanup" /\ log[j - 1].i = log[j].i)
              ELSE j > 1 /\ log[j - 1] = Ev("cleanup", log[j].i, log[j].n - 1)
    /\ "cleanup_twice" \notin hist.faults
    /\ hist.owed \subseteq Held
    /\ pc = "idle" => hist.owed = {cells[i] : i \in EffectInsts(root)} \ {Noop}

\* in the update that returned an effect ran again right after its cleanup,
\* and the final cleanup of an unmounted effect was run
C6_Witness ==
    /\ pc = "idle"
    /\ \E j \in LogIdx : log[j].e = "run" /\ log[j].n = 2
    /\ hist.owed # {}

\* an unmounted effect's last cleanup was queued and then run
C6_WitnessUnmount ==
    /\ pc = "idle"
    /\ \E a, b \in LogIdx :
          /\ a < b
          /\ log[a].e = "enqc" /\ log[a].n >= 1
          /\ log[b] = Ev("cleanup", log[a].i, log[a].n)

\* position j of the log lies inside a traversal of the tree
InTraversal(j) ==
    \E a \in 1 .. j - 1 :
        /\ log[a].e = "pass"
        /\ \A b \in a + 1 .. j - 1 : log[b].e # "passend"

\* C7: no effect body and no cleanup runs while the tree is traversed, in
\* Application::new as in Application::update
C7_NoEffectDuringTraversal ==
    \A j \in LogIdx : log[j].e \in {"run", "cleanup"} => ~InTraversal(j)

\* a cleanup and a body have run in this call, after a traversal
C7_Witness ==
    \E a, b, c \in LogIdx :
        /\ a < b /\ b < c
        /\ log[a].e = "passend"
        /\ log[b].e = "cleanup"
        /\ log[c].e = "run"

\* C8: once new or update has settled, the body of every mounted Effect has
\* run at least once
C8_MountedEffectsRun ==
    pc = "idle" => \A i \in EffectInsts(root) : edata[i].runs >= 1

\* C9: when a Component is unmounted, the final cleanups of the Effect nodes
\* below it have run before its deinit, and none runs after
C9_CleanupBeforeDeinit ==
    \A j \in LogIdx :
        log[j].e = "unmounted" =>
            /\ \A b \in LogIdx :
                  (log[b].e = "cleanup" /\ log[b].i \in log[j].olds) => b < j
            /\ \A a \in LogIdx :
                  (log[a].e = "enqc" /\ log[a].i \in log[j].olds /\ log[a].n >= 1) =>
                      \E b \in 1 .. j : log[b] = Ev("cleanup", log[a].i, log[a].n)

\* the pass diffs the mounted Effect below the root against an Effect descriptor
C10_Case ==
    /\ RootRecalc
    /\ root.result.k = "Effect"
    /\ NewPage.k = "Effect"

C10_Step ==
    C10_Case =>
        /\ root'.result.k = "Effect"
        /\ root'.result.template = [func |-> NewPage.func, props |-> NewPage.props]
        /\ edata'[root'.result.init_data].fn = NewPage.func
        /\ IF NewPage.func = root.result.template.func
           THEN root'.result.init_data = root.result.init_data
           ELSE /\ root'.result.init_data # root.result.init_data
                /\ \E j \in DOMAIN log' :
                      log'[j].e = "enqc" /\ log'[j].i = root.result.init_data

\* C10: an Effect diffed against an Effect descriptor of another function
\* identity is unmounted and the new effect mounted; with the same identity
\* it is patched in place
C10_EffectDiffByIdentity == [][C10_Step]_vars

RECURSIVE Mirrors(_, _)
\* the mounted node m has the shape of the descriptor d: the same variant,
\* and for a Group as many ordered children and the same names
Mirrors(m, d) ==
    /\ m.k = d.k
    /\ m.k = "Unit" => Mirrors(m.children, d.children)
    /\ m.k = "Group" =>
          /\ m.render_order = d.render_order
          /\ Len(m.ordered) = Len(d.ordered)
          /\ DOMAIN m.named = DOMAIN d.named
          /\ \A i \in DOMAIN m.ordered : Mirrors(m.ordered[i], d.ordered[i])
          /\ \A n \in DOMAIN m.named : Mirrors(m.named[n], d.named[n])

C11_Step == (RootRecalc /\ pc' # "panic") => Mirrors(root'.result, NewPage)

\* C11: after the result of the root was diffed against the descriptor the
\* root function returned, the mounted result has the shape of that
\* descriptor: the same variant, and for a Group as many ordered children
\* and exactly the names of the new group
C11_DiffMirrorsDescriptor == [][C11_Step]_vars

\* the number of entries of a log that are event e of instance i
Count(l, e, i) == Cardinality({j \in DOMAIN l : l[j].e = e /\ l[j].i = i})

\* the pass diffs the mounted Group below the root against a Group with
\* fewer ordered children and the same named entries
C12_Case ==
    /\ RootRecalc
    /\ root.result.k = "Group"
    /\ NewPage.k = "Group"
    /\ Len(NewPage.ordered) < Len(root.result.ordered)
    /\ DOMAIN NewPage.named = DOMAIN root.result.named
    /\ \A n \in DOMAIN NewPage.named :
          /\ root.result.named[n].k = "Component"
          /\ root.result.named[n].template = Template(NewPage.named[n])

C12_Step ==
    C12_Case =>
        LET old == root.result.ordered
            new == NewPage.ordered
            now == root'.result.ordered
        IN /\ Len(now) = Len(new)
           \* the surplus children are unmounted, each once
           /\ \A p \in Len(new) + 1 .. Len(old) :
                 /\ \A i \in ComponentInsts(old[p]) :
                       Count(log', "deinit", i) = 1 /\ i \notin hist'.live
                 /\ \A i \in EffectInsts(old[p]) :
                       /\ Count(log', "enqc", i) = 1
                       /\ Count(log', "enq", i) = 0
                       /\ i \notin EffectInsts(root')
           \* the others are diffed in place against the child at their position
           /\ \A p \in 1 .. Len(new) :
                 /\ Mirrors(now[p], new[p])
                 /\ (old[p].k = "Component" /\ new[p].k = "Component"
                        /\ old[p].template.func = new[p].func) =>
                       /\ now[p].init_data.inst = old[p].init_data.inst
                       /\ now[p].template = Template(new[p])
                       /\ Count(log', "call", old[p].init_data.inst) = 1
                       /\ Count(log', "init", old[p].init_data.inst) = 0
                       /\ Count(log', "deinit", old[p].init_data.inst) = 0
                       /\ now[p].result.k = "Unit" => now[p].result.unit[1] = new[p].props

\* C12: a Group diffed against a Group with fewer ordered children (the named
\* entries unchanged) unmounts exactly the old children beyond the new count,
\* each once, and diffs the others in place against the new child at the
\* same position; no removed child is diffed
C12_GroupShrinkUnmountsTail == [][C12_Step]_vars

\* the update that returned shrank the group [fw(0), effZ] to [fw(1)]: the
\* effect was unmounted and fw patched in place
C12_Witness ==
    /\ pc = "idle"
    /\ log # <<>> /\ log[1] = Ev("mutate", RootStore, 6)
    /\ root.result.k = "Group"
    /\ Len(root.result.ordered) = 1
    /\ root.result.ordered[1].result.unit[1] = 1
    /\ \E j \in LogIdx : log[j].e = "enqc"
    /\ \A j \in LogIdx : log[j].e \notin {"init", "deinit", "replaced"}

\* sequence a is a permutation of sequence b
IsPermutation(a, b) ==
    /\ Len(a) = Len(b)
    /\ \E f \in [DOMAIN a -> DOMAIN b] :
          /\ \A i, j \in DOMAIN a : i # j => f[i] # f[j]
          /\ \A i \in DOMAIN a : a[i] = b[f[i]]

\* the pass diffs the mounted Group below the root against a Group with the
\* same named children and a permuted render_order
C13_Case ==
    /\ RootRecalc
    /\ root.result.k = "Group"
    /\ NewPage.k = "Group"
    /\ DOMAIN NewPage.named = DOMAIN root.result.named
    /\ DOMAIN NewPage.named # {}
    /\ \A n \in DOMAIN NewPage.named :
          /\ root.result.named[n].k = "Component"
          /\ root.result.named[n].template = Template(NewPage.named[n])
    /\ NewPage.render_order # root.result.render_order
    /\ IsPermutation(NewPage.render_order, root.result.render_order)

C13_Step ==
    C13_Case =>
        /\ root'.result.render_order = NewPage.render_order
        /\ DOMAIN root'.result.named = DOMAIN root.result.named
        /\ \A n \in DOMAIN root.result.named :
              LET old == root.result.named[n]
                  now == root'.result.named[n]
              IN /\ now.k = "Component"
                 /\ now.template = old.template
                 /\ now.init_data.inst = old.init_data.inst
                 /\ ParamIds(now.init_data) = ParamIds(old.init_data)
                 /\ \A id \in ParamIds(old.init_data) :
                       /\ id \in DOMAIN world'.stores
                       /\ world'.stores[id].val = world.stores[id].val
                 /\ ComponentInsts(now) = ComponentInsts(old)
                 /\ EffectInsts(now) = EffectInsts(old)
                 /\ \A i \in ComponentInsts(old) \cup EffectInsts(old) :
                       \A j \in DOMAIN log' :
                           log'[j].i = i => log'[j].e \notin {"init", "einit", "deinit", "enqc", "unmounted"}
                 /\ Render(now) = Render(old)

\* C13: a Group diffed against a Group with the same named children and a
\* permuted render_order keeps every named child: the same instance, hook
\* state and subtree, no init, deinit, mount or unmount; the mounted
\* render_order becomes the new one
C13_ReorderKeepsNamed == [][C13_Step]_vars

\* the update that returned moved the named child a to the front of the
\* render order, and rendering now yields its text first
C13_Witness ==
    /\ pc = "idle"
    /\ log # <<>> /\ log[1] = Ev("mutate", RootStore, 7)
    /\ root.result.k = "Group"
    /\ root.result.render_order[1] = IosString("a")
    /\ "a" \in DOMAIN root.result.named
    /\ Len(root.result.ordered) = 2
    /\ \A j \in LogIdx : log[j].e \notin {"init", "deinit", "replaced"}
    /\ \E j \in LogIdx : log[j] = Ev("call", root.result.named["a"].init_data.inst, 0)
    /\ ~RenderPanics(root)
    /\ Len(Render(root)) = 2
    /\ Render(root)[1].unit = <<1>>

RECURSIVE AnyNeedsRecalc(_)
\* needs_recalc is true for some Component or Effect of the mounted tree
AnyNeedsRecalc(m) ==
    LET ctx == [world |-> world, edata |-> edata]
    IN CASE m.k = "Component" ->
                \/ WidgetFuncNeedsRecalc(m.template.func, ctx, m.init_data)
                \/ AnyNeedsRecalc(m.result)
         [] m.k = "Effect" -> EffectFuncNeedsRecalc(m.template.func, ctx, m.init_data)
         [] m.k = "Unit" -> AnyNeedsRecalc(m.children)
         [] m.k = "Group" ->
                \/ \E i \in DOMAIN m.ordered : AnyNeedsRecalc(m.ordered[i])
                \/ \E n \in DOMAIN m.named : AnyNeedsRecalc(m.named[n])
         [] OTHER -> FALSE

\* update is called (the reconcile pass of a call that starts now is the only
\* step from idle that moves the change tick)
UpdateCalled == pc = "idle" /\ world'.tick # world.tick

C14_Step ==
    (UpdateCalled /\ ~AnyNeedsRecalc(root) /\ execute_at_end = <<>>) =>
        /\ pc' = "idle"
        /\ log' = <<Ev("pass", 0, 0), Ev("passend", 0, 0), Ev("mark", 0, 0)>>
        /\ root' = root
        /\ world'.stores = world.stores
        /\ UNCHANGED <<execute_at_end, cells, edata, next, hist>>
        /\ RenderPanics(root') = RenderPanics(root)
        /\ ~RenderPanics(root) => Render(root') = Render(root)

\* C14: when needs_recalc is false for every mounted Component and Effect
\* and nothing is deferred, update calls no widget function, mounts, diffs
\* and unmounts nothing, enqueues and runs no effect or cleanup, and leaves
\* the mounted tree unchanged
C14_SettledUpdateIsNoop == [][C14_Step]_vars

\* an update of a settled tree with components and an effect has returned
C14_Witness ==
    /\ pc = "idle"
    /\ log = <<Ev("pass", 0, 0), Ev("passend", 0, 0), Ev("mark", 0, 0)>>
    /\ Cardinality(ComponentInsts(root)) >= 2
    /\ EffectInsts(root) # {}
    /\ \A i \in EffectInsts(root) : edata[i].runs >= 1

\* the call that returned was an update of the mounted tree with no write
\* before it (the log of Application::new holds the init of the root)
UpdateAlone ==
    /\ pc = "idle"
    /\ log # <<>>
    /\ log[1].e = "pass"
    /\ Count(log, "init", root.init_data.inst) = 0

\* C15: for a mounted counter component (fw: an integer store that starts at
\* 0, shown by the result): an update after a write to the counter calls
\* the function exactly once, with no init and no deinit, and the result
\* then shows the written value; an update without a write does not call it
C15_CounterRerender ==
    (pc = "idle" /\ log # <<>>) =>
        \A c \in Components(root) :
            c.template.func = "fw" =>
                LET i == c.init_data.inst
                    id == c.init_data.params[1].id
                IN /\ (log[1].e = "mutate" /\ log[1].i = id) =>
                         /\ Count(log, "call", i) = 1
                         /\ Count(log, "init", i) = 0
                         /\ Count(log, "deinit", i) = 0
                         /\ c.result.k = "Unit"
                         /\ c.result.unit[2] = log[1].n
                         /\ world.stores[id].val = log[1].n
                   /\ UpdateAlone => Count(log, "call", i) = 0

\* the counter, mounted at 0, was incremented twice, each time followed by
\* an update; the host rendered after the second one and got the value 2
C15_Witness ==
    /\ pc = "idle"
    /\ root.result.k = "Component"
    /\ root.result.template = [func |-> "fw", props |-> 0]
    /\ log # <<>>
    /\ log[1] = Ev("mutate", root.result.init_data.params[1].id, 2)
    /\ Count(log, "call", root.result.init_data.inst) = 1
    /\ rendered # <<>>
    /\ rendered[1][1].unit = <<0, 2>>

\* the number of reconcile passes in the log
Passes == Cardinality({j \in LogIdx : log[j].e = "pass"})

Writes == Cardinality({j \in LogIdx : log[j].e = "write"})

RECURSIVE Concat(_), Visible(_)
\* the concatenation of a sequence of sequences
Concat(ss) == IF ss = <<>> THEN <<>> ELSE Concat(SubSeq(ss, 1, Len(ss) - 1)) \o ss[Len(ss)]

\* the visible units of a mounted tree as the projection is described:
\* Components are transparent, None and Effect contribute nothing, a Unit
\* contributes one node above the projection of its child, a Group the
\* projections of the children its render_order refers to, in that order
Visible(m) ==
    CASE m.k = "Component" -> Visible(m.result)
      [] m.k = "Unit" -> <<[unit |-> m.unit, children |-> Visible(m.children)]>>
      [] m.k = "Group" ->
            Concat([j \in DOMAIN m.render_order |->
                      IF m.render_order[j].int
                      THEN Visible(m.ordered[m.render_order[j].i + 1])
                      ELSE Visible(m.named[m.render_order[j].s])])
      [] OTHER -> <<>>

\* C17: on the mounted tree of a settled application render returns the
\* projection described: every render_order entry of a Group refers to a
\* mounted child, and what render returned is the sequence of visible units
C17_RenderProjection ==
    pc = "idle" =>
        /\ ~RenderPanics(root)
        /\ \A j \in DOMAIN rendered : rendered[j] = Visible(root)

\* wherever the traversal does not panic, it returns the projection
RenderReturnsVisible ==
    (pc = "idle" /\ ~RenderPanics(root)) =>
        /\ Render(root) = Visible(root)
        /\ \A j \in DOMAIN rendered : rendered[j] = Visible(root)

\* a group was rendered in the order of its render_order, the named child first
RenderReturnsVisibleSeen ==
    /\ pc = "idle"
    /\ root.result.k = "Group"
    /\ root.result.render_order[1] = IosString("a")
    /\ rendered # <<>>
    /\ Len(rendered[1]) = 2
    /\ rendered[1][1].unit = <<1>>

\* render is called: the only step that adds to what was rendered, or that
\* ends an idle application without touching the tick
RenderCalled ==
    /\ pc = "idle"
    /\ \/ Len(rendered') = Len(rendered) + 1
       \/ pc' = "panic" /\ world' = world

C18_Step ==
    RenderCalled =>
        /\ UNCHANGED <<root, world, execute_at_end, cells, edata, next, log, hist, arg>>
        /\ \A j \in DOMAIN rendered : rendered'[j] = rendered[j]
        /\ \A i, j \in DOMAIN rendered' : rendered'[i] = rendered'[j]

InUpdate ==
    /\ log # <<>>
    /\ root.k = "Component"
    /\ Count(log, "init", root.init_data.inst) = 0

\* C19: in update, mark_update comes after the deferred work of the pass
\* before it: between a mark_update and the end of the reconcile pass that
\* precedes it the deferred closures were run (a pass that leaves nothing
\* deferred ends the loop without mark_update)
C19_MarkAfterDeferredWork ==
    InUpdate =>
        \A j \in LogIdx :
            log[j].e = "mark" =>
                \E d \in 1 .. j - 1 :
                    /\ log[d].e = "drain"
                    /\ \A p \in d + 1 .. j - 1 : log[p].e # "passend"

\* the pass diffs the mounted result of the root against a descriptor of
\* another variant
C20_Case ==
    /\ RootRecalc
    /\ root.result.k # NewPage.k
    /\ pc' # "panic"

C20_Step ==
    C20_Case =>
        \* the new descriptor is mounted, whole
        /\ Mirrors(root'.result, NewPage)
        /\ root'.result.k = "Unit" => root'.result.unit = NewPage.unit
        /\ root'.result.k \in {"Component", "Effect"} =>
              root'.result.template = Template(NewPage)
        \* with hook state and stores of its own
        /\ ComponentInsts(root'.result) \cap hist.live = {}
        /\ EffectInsts(root'.result) \cap DOMAIN edata = {}
        /\ StoreIds(root'.result) \cap DOMAIN world.stores = {}
        /\ \A i \in ComponentInsts(root'.result) : Count(log', "init", i) = 1
        \* the old subtree is unmounted as a whole
        /\ ComponentInsts(root.result) \cap hist'.live = {}
        /\ \A i \in ComponentInsts(root.result) : Count(log', "deinit", i) = 1
        /\ StoreIds(root.result) \cap DOMAIN world'.stores = {}
        /\ EffectInsts(root.result) \cap EffectInsts(root') = {}
        /\ \A i \in EffectInsts(root.result) :
              Count(log', "enqc", i) = 1 /\ Count(log', "enq", i) = 0

\* C20: a node diffed against a descriptor of another variant is unmounted
\* with its whole subtree and the descriptor is mounted fresh: no hook
\* state, child or unit of the old subtree is part of the new node
C20_OtherVariantRemounts == [][C20_Step]_vars

\* the update that returned replaced a group with components and effects by
\* a unit
C20_Witness ==
    /\ pc = "idle"
    /\ log # <<>> /\ log[1] = Ev("mutate", RootStore, 9)
    /\ root.result = MUnit(<<9>>, MNone)
    /\ \E j \in LogIdx :
          /\ log[j].e = "replaced"
          /\ Cardinality(log[j].olds) >= 4
          /\ \A i \in log[j].olds :
                \E a \in LogIdx : log[a].e \in {"deinit", "enqc"} /\ log[a].i = i


\* the handles of the mounted Components, and those of the mounted Effects
\* that ran at least once: the handles that were read
ReadHandles ==
    UNION {{c.init_data.params[i] : i \in DOMAIN c.init_data.params} : c \in Components(root)}
    \cup UNION {{edata[e].params[i] : i \in DOMAIN edata[e].params} :
                   e \in {e \in EffectInsts(root) : edata[e].runs > 0}}

HandleNeedsRecalc(h) == CheckStoreNeedsRecalc([world |-> world], h)

\* C21: for a handle that was read, check_store_needs_recalc is true exactly
\* when its store was written through access_store_mut after the handle's
\* last read_store_marked, however many mark_update calls were made since.
\* (It holds while every write is separated from the read before it by a
\* mark_update, as under Spec; the body of effO writes in the tick of the
\* read, and is_changed compares ticks.)
C21_NeedsRecalcIffWritten ==
    Mounted => \A h \in ReadHandles :
                  h.id \in DOMAIN world.stores => (HandleNeedsRecalc(h) <=> h.id \in hist.dirty)

\* update returned; a handle was read more than two mark_update calls ago and
\* reports no change
C21_Witness ==
    /\ pc = "idle"
    /\ \E h \in ReadHandles : h.tick + 2 < world.tick /\ ~HandleNeedsRecalc(h)
                                /\ h.id \notin hist.dirty

\* a store was written after its handle's last read, and the handle reports it
C21_WitnessWritten ==
    \E h \in ReadHandles : HandleNeedsRecalc(h) /\ h.id \in hist.dirty /\ h.tick > 0


\* C22: push_named with a name that is present in the named map panics and
\* appends nothing to render_order
C22_Step ==
    (/\ Len(pushes') = Len(pushes) + 1
     /\ pushes'[Len(pushes')].named
     /\ pushes'[Len(pushes')].name \in DOMAIN group.named)
    => /\ group'.panicked
       /\ group'.render_order = group.render_order

C22_DuplicateNamePanics == [][C22_Step]_vars

\* push_named was called with a name that was present
C22_Witness ==
    /\ group.panicked
    /\ pushes # <<>>
    /\ pushes[Len(pushes)].named
    /\ \E j \in 1 .. Len(pushes) - 1 : pushes[j].named /\ pushes[j].name = pushes[Len(pushes)].name


\* the number of push calls among the first j calls
PushesBefore(j) == Cardinality({k \in 1 .. j : ~pushes[k].named})

\* C23: after push and push_named calls with pairwise distinct names on an
\* empty group, render_order references every ordered index and every name
\* exactly once, references nothing that is missing, and its j-th entry is
\* the entry inserted by the j-th call
C23_RenderOrderComplete ==
    ~group.panicked =>
        /\ Len(group.render_order) = Len(pushes)
        /\ \A i \in 0 .. Len(group.ordered) - 1 :
              Cardinality({j \in DOMAIN group.render_order :
                              group.render_order[j] = IosInt(i)}) = 1
        /\ \A n \in DOMAIN group.named :
              Cardinality({j \in DOMAIN group.render_order :
                              group.render_order[j] = IosString(n)}) = 1
        /\ \A j \in DOMAIN group.render_order :
              IF pushes[j].named
              THEN /\ group.render_order[j] = IosString(pushes[j].name)
                   /\ pushes[j].name \in DOMAIN group.named
                   /\ group.named[pushes[j].name] = pushes[j].node
              ELSE /\ group.render_order[j] = IosInt(PushesBefore(j) - 1)
                   /\ PushesBefore(j) <= Len(group.ordered)
                   /\ group.ordered[PushesBefore(j)] = pushes[j].node

\* two push calls and two push_named calls with distinct names, interleaved
C23_Witness ==
    /\ ~group.panicked
    /\ Len(pushes) = 4
    /\ ~pushes[1].named /\ pushes[2].named /\ ~pushes[3].named /\ pushes[4].named
    /\ pushes[1].node # pushes[3].node


\* a reconcile pass is taken (the only step that moves the change tick)
PassTaken == pc \in {"idle", "pass"} /\ world'.tick # world.tick

\* the entries the step adds to the log
Added ==
    IF pc = "idle" THEN {log'[j] : j \in DOMAIN log'}
    ELSE {log'[j] : j \in {j \in DOMAIN log' : j > Len(log)}}

ComponentNeedsRecalc(c) == WidgetFuncNeedsRecalc(c.template.func, [world |-> world], c.init_data)

RECURSIVE Unforced(_)
\* the Component and Effect nodes that process(ctx, false) reaches from m:
\* those with no recomputed Component above them
Unforced(m) ==
    CASE m.k = "Component" ->
            {m} \cup (IF ComponentNeedsRecalc(m) THEN {} ELSE Unforced(m.result))
      [] m.k = "Effect" -> {m}
      [] m.k = "Unit" -> Unforced(m.children)
      [] m.k = "Group" -> UNION ({Unforced(m.ordered[i]) : i \in DOMAIN m.ordered}
                                 \cup {Unforced(m.named[n]) : n \in DOMAIN m.named})
      [] OTHER -> {}

\* what tells the node of a result apart: its variant and its instance
Identity(m) ==
    CASE m.k = "Component" -> <<m.k, m.init_data.inst>>
      [] m.k = "Effect" -> <<m.k, m.init_data>>
      [] OTHER -> <<m.k, 0>>

C24_Step ==
    (PassTaken /\ pc' # "panic") =>
        \A c \in Unforced(root) :
            IF c.k = "Effect"
            THEN EffectFuncNeedsRecalc(c.template.func, [world |-> world, edata |-> edata], c.init_data)
                 => Cardinality({e \in Added : e.e = "enq" /\ e.i = c.init_data}) = 1
            ELSE IF ComponentNeedsRecalc(c)
            THEN Cardinality({e \in Added : e.e = "call" /\ e.i = c.init_data.inst}) = 1
            ELSE /\ \A e \in Added : e.e = "call" => e.i # c.init_data.inst
                 /\ \E d \in Components(root') :
                       /\ d.init_data = c.init_data
                       /\ d.template = c.template
                       /\ Identity(d.result) = Identity(c.result)

\* C24: process without force on a Component whose needs_recalc is false
\* does not call its function and keeps its template, its hook state and
\* the variant and identity of its result; the Components and Effects below
\* it whose own needs_recalc is true are still called or enqueued
C24_SkipKeepsComponent == [][C24_Step]_vars

\* the update that returned called a Component below the root and enqueued
\* an Effect, and did not call the root
C24_Witness ==
    /\ pc = "idle"
    /\ root.k = "Component"
    /\ \A j \in LogIdx : log[j].e = "call" => log[j].i # root.init_data.inst
    /\ \E j \in LogIdx : log[j].e = "call" /\ log[j].i \in ComponentInsts(root.result)
    /\ \E j \in LogIdx : log[j].e = "enq" /\ log[j].i \in EffectInsts(root.result)


\* the descriptor a call of the function of mounted Component m returns now
\* when called with properties p
ResultNow(m, p) == Body(m.template.func, p, ParamsItems([world |-> world], m.init_data.params))

RECURSIVE Kept(_, _)
\* the Components and Effects of the mounted tree m that keep their position
\* and identity in the descriptor n, with the properties n gives them
Kept(m, n) ==
    CASE m.k = "Component" /\ n.k = "Component" /\ m.template.func = n.func ->
            {[k |-> "Component", inst |-> m.init_data.inst, props |-> n.props]}
            \cup Kept(m.result, ResultNow(m, n.props))
      [] m.k = "Effect" /\ n.k = "Effect" /\ m.template.func = n.func ->
            {[k |-> "Effect", inst |-> m.init_data, props |-> n.props]}
      [] m.k = "Unit" /\ n.k = "Unit" -> Kept(m.children, n.children)
      [] m.k = "Group" /\ n.k = "Group" ->
            UNION ({Kept(m.ordered[i], n.ordered[i]) : i \in DOMAIN m.ordered \cap DOMAIN n.ordered}
                   \cup {Kept(m.named[x], n.named[x]) : x \in DOMAIN m.named \cap DOMAIN n.named})
      [] OTHER -> {}

\* the Components this pass recomputes because their own needs_recalc is true
Recomputed == {c \in Unforced(root) : c.k = "Component" /\ ComponentNeedsRecalc(c)}

C25_Step ==
    (PassTaken /\ pc' # "panic") =>
        \A c \in Recomputed : \A d \in Kept(c.result, ResultNow(c, c.template.props)) :
            IF d.k = "Component"
            THEN /\ Cardinality({e \in Added : e.e = "call" /\ e.i = d.inst}) = 1
                 /\ \A e \in Added : e.e \in {"init", "deinit"} => e.i # d.inst
                 /\ \E x \in Components(root') :
                       x.init_data.inst = d.inst /\ x.template.props = d.props
            ELSE /\ Cardinality({e \in Added : e.e = "enq" /\ e.i = d.inst}) = 1
                 /\ d.inst \in EffectInsts(root')

ChildKept(o, n, x) ==
    CASE o.k = "Component" /\ n.k = "Component" /\ o.template.func = n.func ->
            /\ x.k = "Component"
            /\ x.init_data.inst = o.init_data.inst
            /\ x.init_data.fn = o.init_data.fn
            /\ ParamIds(x.init_data) = ParamIds(o.init_data)
            /\ \A id \in ParamIds(o.init_data) :
                  id \in DOMAIN world'.stores /\ world'.stores[id].val = world.stores[id].val
            /\ \A e \in Added : e.e \in {"init", "deinit"} => e.i # o.init_data.inst
            /\ \A e \in Added : e.e = "replaced" => o.init_data.inst \notin e.olds
      [] o.k = "Effect" /\ n.k = "Effect" /\ o.template.func = n.func ->
            /\ x.k = "Effect"
            /\ x.init_data = o.init_data
            /\ \A e \in Added : e.e \in {"einit", "enqc"} => e.i # o.init_data
            /\ \A e \in Added : e.e = "replaced" => o.init_data \notin e.olds
      [] OTHER -> TRUE

C26_Step ==
    (PassTaken /\ pc' # "panic") =>
        \A c \in Recomputed :
            (c.result.k = "Unit" /\ ResultNow(c, c.template.props).k = "Unit") =>
                \E x \in Components(root') :
                    /\ x.init_data.inst = c.init_data.inst
                    /\ x.result.k = "Unit"
                    /\ x.result.unit = ResultNow(c, c.template.props).unit
                    /\ ChildKept(c.result.children, ResultNow(c, c.template.props).children,
                                 x.result.children)

\* C26: the diff of a mounted Unit against a Unit descriptor puts the new
\* unit in place and diffs the children: the Unit is not replaced, and a
\* Component (or Effect) of the same identity below it keeps its hook state
C26_LeafPatchedInPlace == [][C26_Step]_vars

\* the root went from one unit page to the other: the unit is the new one
\* and the component below it is the old instance, its counter still 1
C26_Witness ==
    /\ pc = "idle"
    /\ log # <<>> /\ log[1] = Ev("mutate", RootStore, 12)
    /\ root.result.k = "Unit" /\ root.result.unit = <<12>>
    /\ root.result.children.k = "Component"
    /\ root.result.children.template = [func |-> "gw", props |-> 1]
    /\ \A j \in LogIdx : log[j].e = "init" => log[j].i # root.result.children.init_data.inst
    /\ world.stores[root.result.children.init_data.params[1].id].val = 1


\* a traversal of the tree is taken: the mount of Application::new or a
\* reconcile pass
Traversal == pc = "new" \/ PassTaken

\* the entries the step adds to the log, in order
AddedSeq == IF pc = "idle" THEN log' ELSE SubSeq(log', Len(log) + 1, Len(log'))

\* the positions in AddedSeq of the entries e of instance i
At(e, i) == {j \in DOMAIN AddedSeq : AddedSeq[j].e = e /\ AddedSeq[j].i = i}

C27_Step ==
    (Traversal /\ pc' # "panic") =>
        /\ "use_after_deinit" \notin hist'.faults
        /\ "double_deinit" \notin hist'.faults
        /\ \A i \in {AddedSeq[j].i : j \in {j \in DOMAIN AddedSeq :
                                               AddedSeq[j].e \in {"init", "call", "deinit"}}} :
              /\ Cardinality(At("init", i)) <= 1
              /\ Cardinality(At("deinit", i)) <= 1
              \* init comes first, of a fresh hook state, and the call follows
              /\ IF At("init", i) = {} THEN i \in hist.live
                 ELSE i \notin hist.live /\ i >= next
              /\ \A j \in At("init", i) :
                    /\ j + 1 \in At("call", i)
                    /\ \A k \in At("call", i) \cup At("deinit", i) : k > j
              \* deinit comes last
              /\ \A j \in At("deinit", i) : \A k \in At("call", i) \cup At("init", i) : k < j
              /\ i \in hist'.live <=> At("deinit", i) = {}
              \* every call read the parameters: the handles hold the tick of the pass
              /\ (At("call", i) # {} /\ At("deinit", i) = {}) =>
                    \E x \in Components(root') :
                        /\ x.init_data.inst = i
                        /\ \A p \in DOMAIN x.init_data.params :
                              x.init_data.params[p].tick = world.tick

\* C27: the hook state of a Component instance is init'ed once, before its
\* first call, which follows at once; calls and needs_recalc checks happen
\* only while it is live; it is deinit'ed once, after its last call; every
\* call does get_item on its parameters
C27_ComponentLifecycle == [][C27_Step]_vars

\* the update that returned mounted a component (init, then its first call),
\* called a component mounted by an earlier call of update, and unmounted a
\* third one
C27_Witness ==
    /\ pc = "idle"
    /\ \E j \in LogIdx :
          /\ j + 1 \in LogIdx
          /\ log[j].e = "init" /\ log[j + 1].e = "call" /\ log[j + 1].i = log[j].i
          /\ log[j].i \in hist.live
    /\ \E k \in LogIdx :
          /\ log[k].e = "call"
          /\ \A j \in LogIdx : log[j].e = "init" => log[j].i # log[k].i
    /\ \E j \in LogIdx : log[j].e = "deinit" /\ log[j].i \notin hist.live


C28_Step ==
    (PassTaken /\ pc' # "panic") =>
        \* a Component that is deinit'ed: everything below it went before
        /\ \A c \in Components(root) : \A j \in At("deinit", c.init_data.inst) :
              /\ \A n \in ComponentInsts(c.result) :
                    /\ Cardinality(At("deinit", n)) = 1
                    /\ \A k \in At("deinit", n) : k < j
              /\ \A e \in EffectInsts(c.result) :
                    /\ Cardinality(At("enqc", e)) = 1
                    /\ \A k \in At("enqc", e) : k < j
        \* a Group that is unmounted: every child, once
        /\ (RootRecalc /\ root.result.k = "Group" /\ NewPage.k # "Group") =>
              /\ \A n \in ComponentInsts(root.result) : Cardinality(At("deinit", n)) = 1
              /\ \A e \in EffectInsts(root.result) : Cardinality(At("enqc", e)) = 1
              /\ ComponentInsts(root.result) \cap hist'.live = {}

\* C28: unmount goes children first: when a Component is unmounted, every
\* Component below it is deinit'ed, and the cleanup of every Effect below it
\* enqueued, before the Component's own deinit; the unmount of a Group
\* unmounts each of its named and ordered children exactly once
C28_UnmountChildrenFirst == [][C28_Step]_vars

\* the update that returned unmounted a group of five instances, among them
\* a component above a component and a component above an effect
C28_Witness ==
    /\ pc = "idle"
    /\ \E j \in LogIdx : log[j].e = "replaced" /\ Cardinality(log[j].olds) >= 5
    /\ \E j \in LogIdx : log[j].e = "unmounted" /\ log[j].olds # {}
    /\ \E j \in LogIdx :
          /\ j + 2 \in LogIdx
          /\ log[j].e = "deinit" /\ log[j + 1].e = "unmounted" /\ log[j + 2].e = "deinit"


\* the mounted Effects that the next pass reaches and whose needs_recalc
\* answers true on every pass
SelfInvalidating == {e \in Unforced(root) : e.k = "Effect" /\ e.template.func = "effA"}

C29_Step ==
    /\ (PassTaken /\ SelfInvalidating # {}) =>
          /\ execute_at_end' # <<>>
          /\ pc' \in {"drain", "panic"}
          /\ \A e \in SelfInvalidating : \E j \in DOMAIN execute_at_end' :
                execute_at_end'[j] = RunClosure(e.init_data, e.template.func, e.template.props)
    \* the drain goes back to the pass, with the effect still mounted
    /\ (pc = "drain" /\ SelfInvalidating # {} /\ pc' # pc) =>
          /\ pc' \in {"pass", "panic"}
          /\ root' = root
    \* update returns only from a pass that reached no such effect
    /\ (pc' = "idle" /\ pc # "idle") => SelfInvalidating = {}

\* C29: update has no iteration cap: while a mounted Effect answers
\* needs_recalc true on every pass, every pass enqueues its run, the drain
\* leads to the next pass, and update does not return
C29_SelfInvalidatingLoops == [][C29_Step]_vars

\* the fifth pass of one call of update starts, in a situation in which an
\* earlier pass of the call started, with the effect run four times
C29_Witness ==
    /\ pc = "pass"
    /\ Passes >= 4
    /\ Situation \in hist.seen
    /\ \E i \in EffectInsts(root) : edata[i].fn = "effA" /\ edata[i].runs >= 4


\* what a closure of execute_at_end is: the run of an effect instance, the
\* cleanup left by a run of an instance, or the no-op cleanup
ClosureKey(f) ==
    CASE f.k = "run" -> <<"run", f.i, 0>>
      [] f.k = "cleanup" -> <<"cleanup", f.i, f.n>>
      [] OTHER -> <<"noop", 0, 0>>

RECURSIVE Enqueued(_), Executed(_)
\* the closures a traversal pushed, in order, read off its log
Enqueued(l) ==
    IF l = <<>> THEN <<>>
    ELSE (CASE Head(l).e = "enq" -> <<(<<"run", Head(l).i, 0>>)>>
            [] Head(l).e = "enqc" ->
                  <<(IF Head(l).n = 0 THEN <<"noop", 0, 0>> ELSE <<"cleanup", Head(l).i, Head(l).n>>)>>
            [] OTHER -> <<>>)
         \o Enqueued(Tail(l))

\* the closures a drain executed, in order, read off its log: a run (the
\* cleanup directly before the run of the same instance is the pending
\* cleanup that the run closure executes first), or a cleanup
Executed(l) ==
    IF l = <<>> THEN <<>>
    ELSE (CASE Head(l).e = "run" -> <<(<<"run", Head(l).i, 0>>)>>
            [] Head(l).e = "cleanup" /\ ~(Len(l) > 1 /\ l[2].e = "run" /\ l[2].i = Head(l).i) ->
                  <<(<<"cleanup", Head(l).i, Head(l).n>>)>>
            [] OTHER -> <<>>)
         \o Executed(Tail(l))

C30_Step ==
    \* a traversal starts with an empty list, and what it pushes is on the list
    /\ (Traversal /\ pc' # "panic") =>
          /\ execute_at_end = <<>>
          /\ [j \in DOMAIN execute_at_end' |-> ClosureKey(execute_at_end'[j])] = Enqueued(AddedSeq)
          /\ pc' = "idle" <=> (execute_at_end' = <<>> /\ pc # "new")
    \* the drain executes every closure on the list once, in order, empties the
    \* list, and is followed by a reconcile pass
    /\ (pc \in {"newdrain", "drain"} /\ pc' # pc /\ pc' # "panic") =>
          /\ Executed(AddedSeq)
                = SelectSeq([j \in DOMAIN execute_at_end |-> ClosureKey(execute_at_end[j])],
                            LAMBDA x : x[1] # "noop")
          /\ execute_at_end' = <<>>
          /\ pc' = "pass"
    \* new and update return with an empty list
    /\ pc' = "idle" => execute_at_end' = <<>>

\* C30: every closure pushed on execute_at_end during Application::new or
\* Application::update is executed exactly once, in the order it was pushed,
\* before the call returns; the list is empty when the call returns; and
\* every drain is followed by a further reconcile pass
C30_DeferredRunOnceInOrder == [][C30_Step]_vars

\* the update that returned drained a list of at least two closures, a
\* cleanup and the run of an effect among them, and made a pass after it
C30_Witness ==
    /\ pc = "idle"
    /\ \E j \in LogIdx :
          /\ log[j].e = "drain"
          /\ j + 3 \in LogIdx
          /\ log[j + 1].e = "cleanup"
          /\ \E k \in LogIdx : k > j + 1 /\ log[k].e = "run" /\ log[k].i # log[j + 1].i
          /\ \E k \in LogIdx : k > j + 2 /\ log[k].e = "pass"


RECURSIVE Groups(_)
\* the Group nodes of a mounted tree
Groups(m) ==
    CASE m.k = "Component" -> Groups(m.result)
      [] m.k = "Unit" -> Groups(m.children)
      [] m.k = "Group" -> {m} \cup UNION ({Groups(m.ordered[i]) : i \in DOMAIN m.ordered}
                                          \cup {Groups(m.named[n]) : n \in DOMAIN m.named})
      [] OTHER -> {}

\* the entry of a render_order refers to a mounted child of the group
Refers(g, ios) ==
    IF ios.int THEN ios.i >= 0 /\ ios.i < Len(g.ordered) ELSE ios.s \in DOMAIN g.named

\* C31: after any sequence of updates and diffs every render_order entry of
\* every mounted Group refers to a mounted child of the Group (an index
\* below the number of ordered children, or a key of the named map), so that
\* the traversal of render finds every child it looks up
C31_RenderOrderRefers ==
    Mounted =>
        /\ \A g \in Groups(root) : \A j \in DOMAIN g.render_order : Refers(g, g.render_order[j])
        /\ ~RenderPanics(root)

\* a Group mounted as a whole by the update that returned: its render_order
\* refers to its children and render returned its units
MountedGroupRenders ==
    /\ pc = "idle"
    /\ root.result.k = "Group"
    /\ Len(root.result.ordered) = 2 /\ DOMAIN root.result.named = {"a"}
    /\ \A j \in DOMAIN root.result.render_order :
          Refers(root.result, root.result.render_order[j])
    /\ rendered # <<>>


\* C32: the hook state of every mounted Component was made by init of the
\* function of its template, and the properties of its template are those
\* of a descriptor of that function; no downcast of properties or hook state
\* in call, needs_recalc or deinit fails
C32_TemplateMatchesState ==
    /\ "downcast" \notin hist.faults
    /\ Mounted =>
          \A c \in Components(root) :
              /\ c.init_data.fn = c.template.func
              /\ c.init_data.inst \in DOMAIN hist.ptype
              /\ hist.ptype[c.init_data.inst] = c.template.func

\* the update that returned patched gw below a unit with the properties of
\* another descriptor of gw, and replaced nothing
C32_Witness ==
    /\ pc = "idle"
    /\ log # <<>> /\ log[1].e = "mutate" /\ log[1].i = RootStore
    /\ root.result.k = "Unit" /\ root.result.children.k = "Component"
    /\ root.result.children.template = [func |-> "gw", props |-> 0]
    /\ hist.ptype[root.result.children.init_data.inst] = "gw"
    /\ \E j \in LogIdx : log[j].e = "call" /\ log[j].i = root.result.children.init_data.inst
    /\ \A j \in LogIdx : log[j].e # "replaced" /\ log[j].e # "init"

====
